---- MODULE Spec2Model ----
(***************************************************************************)
(* Model of run_from_csv.py: the batch driver that reads prompts from a    *)
(* CSV file, optionally sorts them by is_house, constructs the Holodeck    *)
(* engine and runs one generation per row whose ID lies in the id range.   *)
(***************************************************************************)
EXTENDS Integers, Sequences, FiniteSets, TLC

(* ---------------------------- bounds ----------------------------------- *)
MaxRows == 3
MaxId == 3

(* ------------------------- input alphabet ------------------------------ *)
\* Python's None for a text cell (csv.DictReader fills short rows with None).
PyNone == "<None>"
\* An optional integer argument: <<>> is None, <<n>> is the value n.
NoArg == <<>>
\* A character of an ID cell that is not a decimal digit.
NonDigit == 10

Columns == {"ID", "Description", "is_house"}
HouseCells == {"false", "True"}
BoundVals == {NoArg, <<2>>}
Policies == {"true", "false", "csv"}

\* str.lower() on the cell alphabet.
Lower(s) ==
    CASE s = "True" -> "true"
      [] s = "TRUE" -> "true"
      [] s = "False" -> "false"
      [] s = "FALSE" -> "false"
      [] s = "Yes" -> "yes"
      [] OTHER -> s

\* int(text): the text is a sequence of characters, digits are 0..9.
IsIntLiteral(cell) ==
    Len(cell) > 0 /\ \A k \in 1..Len(cell) : cell[k] < NonDigit

RECURSIVE IntOf(_)
IntOf(cell) ==
    IF Len(cell) = 0 THEN 0
    ELSE 10 * IntOf(SubSeq(cell, 1, Len(cell) - 1)) + cell[Len(cell)]

(* --------------------------- CSV contents ------------------------------ *)
\* The file is a table with unique integer IDs and a true/false is_house
\* cell in every row, in which at most one irregularity is planted: a
\* non-integer ID, a repeated ID, a four-digit ID (1000 plus the first row's
\* ID), a short row (the cell is None), an is_house text that is neither
\* true nor false, or a missing column.
CellDefects ==
    {"bad_id", "dup_id", "long_id", "no_description", "no_is_house",
     "junk_is_house"}

Defects(n) ==
    {[kind |-> "none", line |-> 0]}
      \cup {[kind |-> k, line |-> l] : k \in CellDefects, l \in 1..n}
      \cup {[kind |-> "no_column", line |-> c] : c \in 1..3}

ColumnAt(c) ==
    CASE c = 1 -> "ID" [] c = 2 -> "Description" [] OTHER -> "is_house"

Hits(d, kind, l) == d.kind = kind /\ d.line = l

MkRow(l, ids, h, d) ==
    [line |-> l,
     ID |-> IF Hits(d, "bad_id", l) THEN <<NonDigit>>
            ELSE IF Hits(d, "no_column", 1) THEN <<>>
            ELSE IF Hits(d, "dup_id", l) THEN <<ids[1]>>
            ELSE IF Hits(d, "long_id", l) THEN <<1, 0, 0, ids[1]>>
            ELSE <<ids[l]>>,
     Description |-> IF Hits(d, "no_description", l) \/ Hits(d, "no_column", 2)
                     THEN PyNone ELSE "txt",
     is_house |-> IF Hits(d, "no_is_house", l) \/ Hits(d, "no_column", 3)
                  THEN PyNone
                  ELSE IF Hits(d, "junk_is_house", l) THEN "yes"
                  ELSE h]

MkCsv(n, ids, hs, d) ==
    [header |-> IF d.kind = "no_column" THEN Columns \ {ColumnAt(d.line)}
                ELSE Columns,
     rows |-> [l \in 1..n |-> MkRow(l, ids, hs[l], d)]]

Injective(f) ==
    \A a, b \in DOMAIN f : a # b => f[a] # f[b]

(* ------------------------------ state ---------------------------------- *)
VARIABLES csv, args, prompts, pc, i, current_single_room, model,
          constructions, log, fatal, building

vars == <<csv, args, prompts, pc, i, current_single_room, model,
          constructions, log, fatal, building>>

Init ==
    /\ \E n \in 0..MaxRows :
         \E ids \in [1..n -> 1..MaxId], hs \in [1..n -> HouseCells],
            d \in Defects(n) :
           Injective(ids) /\ csv = MkCsv(n, ids, hs, d)
    /\ args \in [single_room : Policies, start_id : BoundVals,
                 end_id : BoundVals]
    /\ prompts = <<>>
    /\ pc = "start"
    /\ i = 0
    /\ current_single_room = TRUE
    /\ model = <<>>
    /\ constructions = 0
    /\ log = <<>>
    /\ fatal = ""
    /\ building = <<>>

(* ----------------------- helpers of the driver ------------------------- *)
\* row.get("is_house", "False"): the default only when the key is absent.
GetIsHouse(row) ==
    IF "is_house" \in csv.header THEN row.is_house ELSE "False"

\* str.lower() raises AttributeError on None.
LowerFails(row) == GetIsHouse(row) = PyNone

\* lambda x: x.get("is_house", "False").lower() == "true"   (line 71)
SortKey(row) == Lower(GetIsHouse(row)) = "true"

\* Faulty variant of InsertByKey: an element is also moved in front of the
\* elements whose key equals its own, so equal keys come out reversed.
RECURSIVE InsertByKeyUnstable(_, _)
InsertByKeyUnstable(sorted, row) ==
    IF sorted = <<>> THEN <<row>>
    ELSE IF SortKey(sorted[Len(sorted)]) \/ ~SortKey(row)
         THEN Append(InsertByKeyUnstable(SubSeq(sorted, 1, Len(sorted) - 1),
                                         row),
                     sorted[Len(sorted)])
         ELSE Append(sorted, row)

\* list.sort(key=...): stable, ascending, False < True. Insertion keeps an
\* element after every element whose key is not greater than its own.
RECURSIVE InsertByKey(_, _)
InsertByKey(sorted, row) ==
    IF sorted = <<>> THEN <<row>>
    ELSE IF SortKey(sorted[Len(sorted)]) /\ ~SortKey(row)
         THEN Append(InsertByKey(SubSeq(sorted, 1, Len(sorted) - 1), row),
                     sorted[Len(sorted)])
         ELSE Append(sorted, row)

\* Faulty variant of StableSort: the rows are left in file order.
StableSortSkipped(seq) == seq

RECURSIVE StableSort(_)
StableSort(seq) ==
    IF seq = <<>> THEN <<>>
    ELSE InsertByKey(StableSort(SubSeq(seq, 1, Len(seq) - 1)), seq[Len(seq)])

\* Faulty variant of BelowStart: the lower bound is exclusive.
BelowStartExclusive(prompt_id) ==
    args.start_id # NoArg /\ prompt_id <= args.start_id[1]

\* lines 96-99: the inclusive id range, an absent bound is no bound.
BelowStart(prompt_id) ==
    args.start_id # NoArg /\ prompt_id < args.start_id[1]

AboveEnd(prompt_id) ==
    args.end_id # NoArg /\ prompt_id > args.end_id[1]

InRange(prompt_id) == ~BelowStart(prompt_id) /\ ~AboveEnd(prompt_id)

\* Faulty variant of InitialSingleRoom: the csv policy is not special-cased.
InitialSingleRoomFromFlag == args.single_room = "true"

\* lines 77-81: the mode the engine is first constructed with.
InitialSingleRoom ==
    IF args.single_room = "csv" THEN TRUE ELSE args.single_room = "true"

\* lines 106-107: row_single_room = not is_house
RowSingleRoom(row) == ~(Lower(GetIsHouse(row)) = "true")

\* Faulty variant of NeedsReinit: the policy is not consulted.
NeedsReinitAnyPolicy(row) == RowSingleRoom(row) # current_single_room

\* Faulty variant of NeedsReinit: the current mode is not consulted.
NeedsReinitEveryRow(row) == args.single_room = "csv"

\* Faulty variant of NeedsReinit: the engine is never re-initialised.
NeedsReinitNever(row) == FALSE

\* line 109: re-initialise only in csv mode and only when the mode changes.
NeedsReinit(row) ==
    args.single_room = "csv" /\ RowSingleRoom(row) # current_single_room

\* Holodeck(...): a new engine object; serial tells the objects apart.
Holodeck(single_room) ==
    <<[single_room |-> single_room, serial |-> constructions + 1]>>

\* The decimal digits of a natural number, most significant first.
RECURSIVE Digits(_)
Digits(n) ==
    IF n < 10 THEN <<n>> ELSE Append(Digits(n \div 10), n % 10)

RECURSIVE ZeroPad(_, _)
ZeroPad(digits, width) ==
    IF Len(digits) >= width THEN digits
    ELSE ZeroPad(<<0>> \o digits, width)

\* Faulty variant of Format03d: only the last three digits are kept.
Format03dLastThree(prompt_id) == ZeroPad(Digits(prompt_id % 1000), 3)

\* f"{prompt_id:03d}" for a non-negative prompt_id: at least three digits.
Format03d(prompt_id) == ZeroPad(Digits(prompt_id), 3)

\* line 102: save_dir = results_dir / f"scene_{prompt_id:03d}"
SaveDir(prompt_id) ==
    [parent |-> "results_dir", prefix |-> "scene_",
     suffix |-> Format03d(prompt_id)]

LogEntry(row, ok) ==
    [line |-> row.line, id |-> IntOf(row.ID),
     single_room |-> model[1].single_room,
     session |-> model[1].serial,
     save_dir |-> SaveDir(IntOf(row.ID)),
     status |-> IF ok THEN "ok" ELSE "failed"]

Abort(err) ==
    /\ pc' = "fatal"
    /\ fatal' = err

\* line 120: description[:50] raises TypeError when the cell is None;
\* otherwise control enters the try block.
EnterTry(row) ==
    IF row.Description = PyNone
    THEN Abort("TypeError:Description")
    ELSE pc' = "gen" /\ fatal' = fatal

(* ------------------------------ actions -------------------------------- *)
\* lines 66-67: open the file and read every row.
ReadCsv ==
    /\ pc = "start"
    /\ \/ /\ prompts' = csv.rows
          /\ pc' = "sort"
          /\ fatal' = fatal
       \/ /\ Abort("OSError")
          /\ prompts' = prompts
    /\ UNCHANGED <<building, csv, args, i, current_single_room, model, constructions,
                   log>>

\* lines 70-74: sort by is_house in csv mode only.
SortPrompts ==
    /\ pc = "sort"
    /\ IF args.single_room = "csv"
       THEN IF \E k \in 1..Len(prompts) : LowerFails(prompts[k])
            THEN Abort("AttributeError:is_house") /\ prompts' = prompts
            ELSE /\ prompts' = StableSort(prompts)
                 /\ pc' = "init"
                 /\ fatal' = fatal
       ELSE /\ prompts' = prompts
            /\ pc' = "init"
            /\ fatal' = fatal
    /\ UNCHANGED <<building, csv, args, i, current_single_room, model, constructions,
                   log>>

\* lines 77-90: the first construction of the engine; it may raise.
InitModel ==
    /\ pc = "init"
    /\ current_single_room' = InitialSingleRoom
    /\ constructions' = constructions + 1
    /\ \/ /\ model' = Holodeck(InitialSingleRoom)
          /\ pc' = "loop"
          /\ i' = 1
          /\ fatal' = fatal
       \/ /\ Abort("EngineError")
          /\ UNCHANGED <<model, i>>
    /\ UNCHANGED <<building, csv, args, prompts, log>>

\* lines 92-121 for one row, up to the try block or into the constructor
\* call of line 112.
LoopHead ==
    /\ pc = "loop"
    /\ i <= Len(prompts)
    /\ LET row == prompts[i] IN
         IF "ID" \notin csv.header
         THEN Abort("KeyError:ID")
              /\ UNCHANGED <<i, current_single_room, building>>
         ELSE IF ~IsIntLiteral(row.ID)
         THEN Abort("ValueError:ID")
              /\ UNCHANGED <<i, current_single_room, building>>
         ELSE IF ~InRange(IntOf(row.ID))
         THEN /\ i' = i + 1
              /\ UNCHANGED <<pc, fatal, current_single_room, building>>
         ELSE IF "Description" \notin csv.header
         THEN Abort("KeyError:Description")
              /\ UNCHANGED <<i, current_single_room, building>>
         ELSE IF args.single_room = "csv" /\ LowerFails(row)
         THEN Abort("AttributeError:is_house")
              /\ UNCHANGED <<i, current_single_room, building>>
         ELSE IF NeedsReinit(row)
         THEN /\ current_single_room' = RowSingleRoom(row)
              /\ building' = Holodeck(RowSingleRoom(row))
              /\ pc' = "reinit"
              /\ UNCHANGED <<i, fatal>>
         ELSE /\ EnterTry(row)
              /\ UNCHANGED <<i, current_single_room, building>>
    /\ UNCHANGED <<csv, args, prompts, model, constructions, log>>

\* Faulty variant of Reinit: a constructor that raises is handled like a
\* failed request and the loop goes on.
ReinitCaught ==
    /\ pc = "reinit"
    /\ constructions' = constructions + 1
    /\ building' = <<>>
    /\ \/ /\ model' = building
          /\ EnterTry(prompts[i])
          /\ UNCHANGED <<i, log>>
       \/ /\ model' = model
          /\ log' = Append(log, LogEntry(prompts[i], FALSE))
          /\ i' = i + 1
          /\ pc' = "loop"
          /\ fatal' = fatal
    /\ UNCHANGED <<csv, args, prompts, current_single_room>>

\* lines 111-121: the constructor call of a re-initialisation, entered by
\* LoopHead, returns or raises. Until the assignment of line 112 is made
\* the name model still refers to the previous engine; no call disposes of
\* it.
Reinit ==
    /\ pc = "reinit"
    /\ constructions' = constructions + 1
    /\ building' = <<>>
    /\ \/ /\ model' = building
          /\ EnterTry(prompts[i])
       \/ /\ Abort("EngineError")
          /\ model' = model
    /\ UNCHANGED <<csv, args, prompts, i, current_single_room, log>>

\* Faulty variant of Generate: after a failure the engine is rebuilt.
GenerateRebuildOnFailure ==
    /\ pc = "gen"
    /\ \/ /\ log' = Append(log, LogEntry(prompts[i], TRUE))
          /\ UNCHANGED <<model, constructions>>
       \/ /\ log' = Append(log, LogEntry(prompts[i], FALSE))
          /\ model' = Holodeck(current_single_room)
          /\ constructions' = constructions + 1
    /\ i' = i + 1
    /\ pc' = "loop"
    /\ UNCHANGED <<building, csv, args, prompts, current_single_room, fatal>>

\* Faulty variant of Generate: a failed request is attempted again.
GenerateRetry ==
    /\ pc = "gen"
    /\ \E ok \in BOOLEAN :
         /\ log' = Append(log, LogEntry(prompts[i], ok))
         /\ i' = IF ok THEN i + 1 ELSE i
    /\ pc' = "loop"
    /\ UNCHANGED <<building, csv, args, prompts, current_single_room, model,
                   constructions, fatal>>

\* Faulty variant of Generate: the exception is not caught.
GenerateNoCatch ==
    /\ pc = "gen"
    /\ \/ /\ log' = Append(log, LogEntry(prompts[i], TRUE))
          /\ i' = i + 1
          /\ pc' = "loop"
          /\ fatal' = fatal
       \/ /\ Abort("Exception")
          /\ UNCHANGED <<log, i>>
    /\ UNCHANGED <<building, csv, args, prompts, current_single_room, model,
                   constructions>>

\* lines 123-141: the generation call returns or raises an Exception, which
\* is caught; either way the loop goes on with the next row.
Generate ==
    /\ pc = "gen"
    /\ \E ok \in BOOLEAN : log' = Append(log, LogEntry(prompts[i], ok))
    /\ i' = i + 1
    /\ pc' = "loop"
    /\ UNCHANGED <<building, csv, args, prompts, current_single_room, model,
                   constructions, fatal>>

\* lines 143-145: the loop is exhausted, "Batch complete!".
Finish ==
    /\ pc = "loop"
    /\ i > Len(prompts)
    /\ pc' = "done"
    /\ UNCHANGED <<building, csv, args, prompts, i, current_single_room, model,
                   constructions, log, fatal>>

Next ==
    \/ ReadCsv
    \/ SortPrompts
    \/ InitModel
    \/ LoopHead
    \/ Reinit
    \/ Generate
    \/ Finish

Spec == Init /\ [][Next]_vars

(* ------------------- vocabulary of the properties --------------------- *)
\* The request of file line l passes the id filter: lo <= id <= hi, an
\* absent bound being no bound.
PassesLine(l) ==
    LET cell == csv.rows[l].ID IN
      /\ IsIntLiteral(cell)
      /\ args.start_id = NoArg \/ args.start_id[1] <= IntOf(cell)
      /\ args.end_id = NoArg \/ IntOf(cell) <= args.end_id[1]

\* The request of file line l is marked as a house (multi-room).
IsHouseLine(l) ==
    /\ "is_house" \in csv.header
    /\ csv.rows[l].is_house \in {"true", "True", "TRUE"}

FileLines == [l \in 1..Len(csv.rows) |-> l]
FilteredLines == {l \in 1..Len(csv.rows) : PassesLine(l)}
PassingSingle(l) == PassesLine(l) /\ ~IsHouseLine(l)
PassingHouse(l) == PassesLine(l) /\ IsHouseLine(l)

LogLines == [k \in 1..Len(log) |-> log[k].line]
LogIds == [k \in 1..Len(log) |-> log[k].id]
LogModes == [k \in 1..Len(log) |-> log[k].single_room]
LogHasFailure == \E k \in 1..Len(log) : log[k].status = "failed"

\* Number of maximal runs of equal elements in a sequence.
Groups(seq) ==
    Cardinality({k \in 1..Len(seq) : k = 1 \/ seq[k] # seq[k - 1]})

\* The table of the scenarios: 1:false, 2:true, 3:false.
ScenarioTable ==
    /\ csv.header = Columns
    /\ Len(csv.rows) = 3
    /\ \A l \in 1..3 : csv.rows[l].ID = <<l>> /\ csv.rows[l].Description = "txt"
    /\ Lower(csv.rows[1].is_house) = "false"
    /\ Lower(csv.rows[2].is_house) = "true"
    /\ Lower(csv.rows[3].is_house) = "false"

NoBounds == args.start_id = NoArg /\ args.end_id = NoArg

(* ------------------------------- C1 ------------------------------------ *)
\* C1: no request is ever attempted twice, every outcome is "ok" or
\* "failed", and in a run that reaches "Batch complete" every row whose id
\* passes the filter has exactly one outcome and there are no others; with
\* no id bounds there are as many outcomes as rows.
C1_ExactlyOneOutcomePerRequest ==
    /\ \A j, k \in 1..Len(log) : j # k => log[j].line # log[k].line
    /\ \A k \in 1..Len(log) :
         log[k].status \in {"ok", "failed"} /\ log[k].line \in FilteredLines
    /\ pc = "done" =>
         /\ \A l \in FilteredLines :
              Cardinality({k \in 1..Len(log) : log[k].line = l}) = 1
         /\ Len(log) = Cardinality(FilteredLines)
         /\ NoBounds => Len(log) = Len(csv.rows)

\* A completed run in which a row was filtered out, two rows were attempted
\* and one of them failed.
C1_Witness ==
    /\ pc = "done"
    /\ Len(log) = 2
    /\ Len(csv.rows) = 3
    /\ LogHasFailure

(* ------------------------------- C2 ------------------------------------ *)
\* C2: in a completed run the set of ids for which generation was attempted
\* is exactly the set of ids of the table within the inclusive bounds, under
\* every policy.
C2_ExecutedIdsAreTheIdsInRange ==
    pc = "done" =>
      {log[k].id : k \in 1..Len(log)}
        = {IntOf(csv.rows[l].ID) : l \in FilteredLines}

\* start_id = end_id = 2 on a table holding 1, 2 and 3: only 2 is attempted.
C2_Witness ==
    /\ pc = "done"
    /\ ScenarioTable
    /\ args.start_id = <<2>> /\ args.end_id = <<2>>
    /\ LogIds = <<2>>

(* ------------------------------- C3 ------------------------------------ *)
\* C3: under the per-row policy no house request is attempted before a
\* single-room request, within each group requests are attempted in file
\* order, and a completed run attempted exactly the filtered single-room
\* requests in file order followed by the filtered house requests in file
\* order.
C3_PerRowOrderIsStablePartition ==
    args.single_room = "csv" =>
      /\ \A j, k \in 1..Len(log) :
           j < k =>
             /\ IsHouseLine(log[j].line) => IsHouseLine(log[k].line)
             /\ IsHouseLine(log[j].line) = IsHouseLine(log[k].line)
                  => log[j].line < log[k].line
      /\ pc = "done" =>
           LogLines = SelectSeq(FileLines, PassingSingle)
                        \o SelectSeq(FileLines, PassingHouse)

\* Rows 1:false, 2:true, 3:false without bounds are attempted as 1, 3, 2.
C3_Witness ==
    /\ pc = "done"
    /\ args.single_room = "csv"
    /\ ScenarioTable
    /\ NoBounds
    /\ LogIds = <<1, 3, 2>>

(* ------------------------------- C4 ------------------------------------ *)
\* C4: under the per-row policy the engine constructor is called at most
\* twice in a run, whatever the order of the two kinds of rows in the file.
C4_PerRowAtMostTwoConstructions ==
    args.single_room = "csv" => constructions <= 2

\* A completed per-row run over a file whose first row is a house and whose
\* later row is a single room, both attempted, with two constructions.
C4_Witness ==
    /\ pc = "done"
    /\ args.single_room = "csv"
    /\ Len(csv.rows) >= 3
    /\ IsHouseLine(1) /\ ~IsHouseLine(2) /\ IsHouseLine(3)
    /\ Len(log) = 3
    /\ constructions = 2

(* ------------------------------- C5 ------------------------------------ *)
\* The place of a file line in the schedule (the possibly sorted prompts).
ScheduledAt(line) == CHOOSE m \in 1..Len(prompts) : prompts[m].line = line

\* C5: a generation call, whether it returns or raises, records exactly one
\* outcome for the current request, leaves the engine alone and hands
\* control back to the loop at the next row; and in a completed run every
\* filtered request scheduled after a failed one has an outcome after it.
C5_FailureDoesNotAbortTheBatch ==
    /\ [][pc = "gen" =>
            /\ pc' = "loop"
            /\ i' = i + 1
            /\ model' = model
            /\ Len(log') = Len(log) + 1
            /\ SubSeq(log', 1, Len(log)) = log
            /\ log'[Len(log')].line = prompts[i].line
            /\ log'[Len(log')].status \in {"ok", "failed"}]_vars
    /\ [](pc = "done" =>
            \A k \in 1..Len(log) :
              log[k].status = "failed" =>
                \A m \in 1..Len(prompts) :
                  (m > ScheduledAt(log[k].line) /\ PassesLine(prompts[m].line))
                    => \E j \in 1..Len(log) :
                         j > k /\ log[j].line = prompts[m].line)

\* Ids 1, 2, 3 under the always-single policy with a failure on 2: the
\* outcomes are 1 ok, 2 failed, 3 ok and the batch is complete.
C5_Witness ==
    /\ pc = "done"
    /\ args.single_room = "true"
    /\ ScenarioTable
    /\ NoBounds
    /\ LogIds = <<1, 2, 3>>
    /\ [k \in 1..Len(log) |-> log[k].status] = <<"ok", "failed", "ok">>

(* ------------------------------- C6 ------------------------------------ *)
\* The mode of the construction that precedes the loop.
FirstMode == IF args.single_room = "false" THEN FALSE ELSE TRUE

C7_FixedPolicyIsPassThrough ==
    args.single_room \in {"true", "false"} =>
      /\ \A k \in 1..Len(log) :
           log[k].single_room = (args.single_room = "true")
      /\ \A j, k \in 1..Len(log) : j < k => log[j].line < log[k].line
      /\ pc = "done" => LogLines = SelectSeq(FileLines, PassesLine)
      /\ pc # "reinit"
      /\ constructions <= 1
      /\ pc \in {"loop", "gen", "done"} => constructions = 1

\* An always-multi run over a file with a house row before a single-room
\* row: both are attempted in multi-room mode, in file order; and the same
\* for always-single.
C7_Witness ==
    /\ pc = "done"
    /\ args.single_room = "false"
    /\ Len(csv.rows) >= 2
    /\ IsHouseLine(1) /\ ~IsHouseLine(2)
    /\ Len(log) >= 2
    /\ log[1].line = 1 /\ log[2].line = 2
    /\ ~log[2].single_room
    /\ constructions = 1

(* ------------------------------- C8 ------------------------------------ *)
\* The table is malformed: no ID column, no Description column, or a row
\* whose ID is not an integer.
Malformed ==
    \/ "ID" \notin csv.header
    \/ "Description" \notin csv.header
    \/ \E l \in 1..Len(csv.rows) : ~IsIntLiteral(csv.rows[l].ID)

\* C8: with a malformed table no generation call is ever made for any row
\* and the run never reaches "Batch complete".
C8_MalformedTableFailsBeforeAnyRequest ==
    Malformed => (log = <<>> /\ pc # "done")

(* ------------------------------- C9 ------------------------------------ *)
\* Every row has an integer id and none lies within the bounds.
FilterEmpty ==
    /\ "ID" \in csv.header
    /\ \A l \in 1..Len(csv.rows) :
         IsIntLiteral(csv.rows[l].ID) /\ ~PassesLine(l)

\* C9: when no row's id lies within the bounds no generation call is made
\* and the run is not an error: if the file can be read and the engine can
\* be constructed, nothing else stops it before "Batch complete".
C9_EmptyFilterIsNotAnError ==
    FilterEmpty =>
      /\ log = <<>>
      /\ pc = "fatal" => fatal \in {"OSError", "EngineError"}

(* ------------------------------- C10 ----------------------------------- *)
\* The required columns are there, every ID is an integer and every row has
\* a description.
WellFormed ==
    /\ {"ID", "Description"} \subseteq csv.header
    /\ \A l \in 1..Len(csv.rows) :
         IsIntLiteral(csv.rows[l].ID) /\ csv.rows[l].Description # PyNone

\* C10: on a well-formed input a run is stopped by nothing but an unreadable
\* file or a failed engine construction, and "Batch complete" is reached
\* only with every filtered request attempted.
C10_WellFormedRunCompletes ==
    WellFormed =>
      /\ pc = "fatal" => fatal \in {"OSError", "EngineError"}
      /\ pc = "done" => \A l \in FilteredLines :
                          \E k \in 1..Len(log) : log[k].line = l

(* ------------------------------- C11 ----------------------------------- *)
\* The number written by a sequence of decimal digits.
RECURSIVE ValueOf(_)
ValueOf(digits) ==
    IF digits = <<>> THEN 0
    ELSE 10 * ValueOf(SubSeq(digits, 1, Len(digits) - 1)) + digits[Len(digits)]

\* C11: the output directory of every attempted request is
\* <root>/scene_<suffix>, where the suffix is the decimal id padded with
\* zeros to three digits (longer, without padding, from 1000 on), and two
\* attempted requests with distinct ids never have the same directory.
C11_OutputDirsAreUniquePerId ==
    /\ \A k \in 1..Len(log) :
         LET dir == log[k].save_dir IN
           /\ dir.parent = "results_dir" /\ dir.prefix = "scene_"
           /\ ValueOf(dir.suffix) = log[k].id
           /\ Len(dir.suffix) >= 3
           /\ Len(dir.suffix) > 3 => dir.suffix[1] # 0
    /\ \A j, k \in 1..Len(log) :
         log[j].id # log[k].id => log[j].save_dir # log[k].save_dir

\* Two requests were attempted whose ids are a one-digit id and 1000 plus
\* that id: scene_00d and scene_100d.
C11_Witness ==
    \E j, k \in 1..Len(log) :
      /\ log[j].id < 10
      /\ log[k].id = 1000 + log[j].id
      /\ Len(log[j].save_dir.suffix) = 3
      /\ Len(log[k].save_dir.suffix) = 4

(* ------------------------------- C12 ----------------------------------- *)
\* The mode the request of file line l requires: under the per-row policy
\* single-room unless the row is marked as a house, otherwise the fixed
\* mode of the policy.
RequiredSingleRoom(l) ==
    IF args.single_room = "csv" THEN ~IsHouseLine(l)
    ELSE args.single_room = "true"

\* C12: whenever a generation call is in progress there is an engine and
\* its mode is the mode the current request requires; every recorded
\* outcome was produced in the mode its request requires.
C12_EngineModeMatchesRequest ==
    /\ pc = "gen" =>
         /\ Len(model) = 1
         /\ model[1].single_room = RequiredSingleRoom(prompts[i].line)
    /\ \A k \in 1..Len(log) :
         log[k].single_room = RequiredSingleRoom(log[k].line)

\* A generation call for a house is in progress under the per-row policy
\* after a failed and a successful single-room request and a
\* re-initialisation.
C12_Witness ==
    /\ pc = "gen"
    /\ args.single_room = "csv"
    /\ IsHouseLine(prompts[i].line)
    /\ ~model[1].single_room
    /\ Len(log) = 2
    /\ log[1].status = "failed" /\ log[2].status = "ok"
    /\ constructions = 2

(* ------------------------------- C13 ----------------------------------- *)
\* C13: a constructor call that yields no engine (the call was made and
\* model is what it was) ends the run at once without recording an outcome;
\* nothing happens after a fatal error, so "Batch complete" is never
\* reached; and when the run was ended by the constructor, neither the
\* request that needed the engine nor any request scheduled after it has an
\* outcome.
C13_ConstructionFailureIsFatal ==
    /\ [][(constructions' # constructions /\ model' = model)
            => (pc' = "fatal" /\ log' = log)]_vars
    /\ [][pc # "fatal"]_vars
    /\ [](fatal = "EngineError" =>
            /\ pc = "fatal"
            /\ \A m \in 1..Len(prompts) :
                 m >= i => \A k \in 1..Len(log) : log[k].line # prompts[m].line)

\* The re-initialisation at the single-to-multi transition failed after a
\* request had been attempted, with two requests still to run.
C13_Witness ==
    /\ pc = "fatal"
    /\ fatal = "EngineError"
    /\ constructions = 2
    /\ Len(log) = 1
    /\ Len(prompts) = 3
    /\ i = 2
    /\ PassesLine(prompts[2].line) /\ PassesLine(prompts[3].line)

(* ------------------------------- C14 ----------------------------------- *)
\* The mode of the request of file line l is unspecified: the file has no
\* is_house column, the row has no value for it, or the value is neither
\* true nor false in any letter case.
ModeUnspecified(l) ==
    \/ "is_house" \notin csv.header
    \/ csv.rows[l].is_house = PyNone
    \/ csv.rows[l].is_house
         \notin {"true", "True", "TRUE", "false", "False", "FALSE"}

\* C14: under the per-row policy an unspecified mode never raises an error
\* from reading is_house, and a request whose mode is unspecified is
\* attempted in single-room mode, before every house.
C14_UnspecifiedModeIsSingleRoom ==
    args.single_room = "csv" =>
      /\ fatal # "AttributeError:is_house"
      /\ \A k \in 1..Len(log) :
           ModeUnspecified(log[k].line) =>
             /\ log[k].single_room
             /\ \A j \in 1..k : ~IsHouseLine(log[j].line)

(* ------------------------------- C15 ----------------------------------- *)
\* The engine objects in existence: the one bound to model and the one a
\* constructor call in progress is building.
EngineObjects == model \o building

\* C15: at no time, a constructor call in progress included, do two engine
\* objects exist.
C15_AtMostOneEngine ==
    Len(EngineObjects) <= 1

(* ------------------------------- C16 ----------------------------------- *)
\* Filtering first: the requests within the bounds, in file order, and
\* their stable single-before-house partition.
FilteredSeq == SelectSeq(FileLines, PassesLine)
IsSingleLine(l) == ~IsHouseLine(l)
PartitionOfFiltered ==
    SelectSeq(FilteredSeq, IsSingleLine) \o SelectSeq(FilteredSeq, IsHouseLine)

\* Every request within the bounds has a value in its is_house cell.
FilteredRowsComplete ==
    \A l \in FilteredLines : csv.rows[l].is_house # PyNone

\* C16: sorting the whole table and filtering in the loop gives what
\* filtering first and partitioning the filtered requests gives. On a
\* well-formed table whose requests within the bounds are complete, rows
\* outside the bounds have no effect under the per-row policy: nothing but
\* an unreadable file or a failed engine construction stops the run, and a
\* completed run attempted exactly the partition of the filtered sequence.
C16_SchedulingAndFilteringCommute ==
    (args.single_room = "csv" /\ WellFormed /\ FilteredRowsComplete) =>
      /\ pc = "fatal" => fatal \in {"OSError", "EngineError"}
      /\ pc = "done" => LogLines = PartitionOfFiltered

(* ------------------------------- C17 ----------------------------------- *)
\* A house was attempted.
HouseAttempted == \E k \in 1..Len(log) : IsHouseLine(log[k].line)

\* C17: in every run that gets to the loop the engine has been constructed
\* before the first row is looked at, whatever the filter lets through; the
\* first engine is single-room under the per-row and the always-single
\* policy and multi-room under always-multi; and a completed run made
\* exactly one constructor call under a fixed policy, and under the per-row
\* policy exactly two if a house was attempted and exactly one otherwise.
C17_EagerConstructionCounts ==
    /\ pc \in {"loop", "reinit", "gen", "done"} =>
         Len(model) = 1 /\ constructions >= 1
    /\ (pc = "loop" /\ i = 1) => constructions = 1 /\ model[1].serial = 1
    /\ (Len(model) = 1 /\ model[1].serial = 1) =>
         model[1].single_room = (args.single_room # "false")
    /\ pc = "done" =>
         constructions
           = IF args.single_room = "csv" /\ HouseAttempted THEN 2 ELSE 1

\* A completed per-row run in which the single-room rows of the file were
\* all filtered out and only houses were attempted: two constructions.
C17_Witness ==
    /\ pc = "done"
    /\ args.single_room = "csv"
    /\ \E l \in 1..Len(csv.rows) : ~IsHouseLine(l) /\ ~PassesLine(l)
    /\ log # <<>>
    /\ \A k \in 1..Len(log) : IsHouseLine(log[k].line)
    /\ constructions = 2
    /\ model[1].serial = 2

(* ------------------------------- C18 ----------------------------------- *)
\* C18: a generation call, failed or not, leaves the engine, the mode and
\* the number of constructions as they were; a constructor call is entered
\* inside the loop only under the per-row policy for a request within the
\* bounds whose required mode differs from the mode of the current engine;
\* and the request attempted next after a failed one, when it requires the
\* same mode, runs on the same engine object.
C18_FailureLeavesEngineUnchanged ==
    /\ [][pc = "gen" =>
            /\ model' = model
            /\ building' = building
            /\ constructions' = constructions
            /\ current_single_room' = current_single_room]_vars
    /\ [][(building = <<>> /\ building' # <<>>) =>
            /\ args.single_room = "csv"
            /\ PassesLine(prompts[i].line)
            /\ Len(model) = 1
            /\ RequiredSingleRoom(prompts[i].line) # model[1].single_room]_vars
    /\ [](\A k \in 1..Len(log) :
            (k < Len(log) /\ log[k].status = "failed"
               /\ RequiredSingleRoom(log[k + 1].line)
                    = RequiredSingleRoom(log[k].line))
              => log[k + 1].session = log[k].session)

\* A completed per-row run: a single-room request, then a house that failed
\* on the second engine, then another house attempted on that same engine.
C18_Witness ==
    /\ pc = "done"
    /\ args.single_room = "csv"
    /\ Len(log) = 3
    /\ log[1].session = 1
    /\ log[2].status = "failed" /\ log[2].session = 2
    /\ log[3].session = 2
    /\ constructions = 2

====
